---- MODULE Spec2Model ----
(***************************************************************************)
(* A model of the LiteRT-LM container tools (python/tools):                *)
(*   litertlm_core.py    the section classifier and the format constants   *)
(*   litertlm_writer.py  the metadata parser and the container writer      *)
(*   litertlm_peek.py    the container reader                              *)
(*                                                                         *)
(* A Python str is a sequence of one-character strings.  The letter "W"    *)
(* is the one exception: it stands for a run of FillLen letters, so that a *)
(* metadata value long enough to fill the header block stays a short       *)
(* sequence; StrLen gives a string's length in characters.                 *)
(***************************************************************************)
EXTENDS Integers, Sequences, FiniteSets, TLC

VARIABLES
    arg,              \* the argument of a pure function under check
    ret,              \* its result
    wpc,              \* where litertlm_write is
    input_files,      \* its arguments
    section_metadata_str,
    metadata_keyvaluepairs,   \* its locals
    section_offsets,
    section_types,
    section_names,
    pos,              \* f.tell() of the output file
    out,              \* the file at output_path
    handles,          \* the open file handles
    opens,            \* every open() made, in order
    wres,             \* how litertlm_write ended
    pres              \* how peek_litertlm_file ended, and what it printed

(* ------------------------------ bounds -------------------------------- *)

\* The file names of the classifier's specification: at most this many pieces.
MaxNameParts == 3
\* litertlm_write is given at most this many input files.
MaxFiles == 2
\* The metadata strings of the parser's specification: at most this many
\* pieces.
MaxMetaParts == 5
\* The value texts of the value specification: at most this many pieces.
MaxValueParts == 3

\* No call has ended yet.
NoRet == [none |-> TRUE]

(* ------------------------------ strings ------------------------------- *)

s_dot == <<".">>
s_slash == <<"/">>
s_x == <<"x">>
s_tflite == <<"t", "f", "l", "i", "t", "e">>
s_pb == <<"p", "b">>
s_proto == <<"p", "r", "o", "t", "o">>
s_pbtext == <<"p", "b", "t", "e", "x", "t">>
s_prototext == <<"p", "r", "o", "t", "o", "t", "e", "x", "t">>
s_spiece == <<"s", "p", "i", "e", "c", "e">>
s_json == <<"j", "s", "o", "n">>
s_tokenizer == <<"t", "o", "k", "e", "n", "i", "z", "e", "r">>
s_tokenizer_json == s_tokenizer \o s_dot \o s_json

\* The concatenation of a sequence of strings.
RECURSIVE Cat(_)
Cat(ss) == IF ss = << >> THEN << >> ELSE Head(ss) \o Cat(Tail(ss))

\* All sequences over S of length at most n.
SeqsUpTo(S, n) == UNION {[1..k -> S] : k \in 0..n}

\* str.endswith
EndsWith(s, suf) ==
    /\ Len(suf) <= Len(s)
    /\ SubSeq(s, Len(s) - Len(suf) + 1, Len(s)) = suf

\* str.rfind of one character: the last index of c in s, 0 when there is none
\* (Python's -1, moved to TLA+'s indices from 1).
RFind(s, c) ==
    LET at == {i \in 1..Len(s) : s[i] = c}
    IN  IF at = {} THEN 0 ELSE CHOOSE i \in at : \A j \in at : j <= i

(* ---------------------------- litertlm_core --------------------------- *)

BLOCK_SIZE == 16 * 1024
HEADER_BEGIN_BYTE_OFFSET == 32
HEADER_END_LOCATION_BYTE_OFFSET == 24
LITERTLM_MAJOR_VERSION == 1
LITERTLM_MINOR_VERSION == 3
LITERTLM_PATCH_VERSION == 0

K_TOKENIZER_SECTION_NAME == s_tokenizer
K_TFLITE_SECTION_NAME == s_tflite
K_LLM_METADATA_SECTION_NAME ==
    <<"l", "l", "m", "_", "m", "e", "t", "a", "d", "a", "t", "a">>
K_BINARY_DATA_SECTION_NAME ==
    <<"b", "i", "n", "a", "r", "y", "_", "d", "a", "t", "a">>
K_HF_TOKENIZER_ZLIB_SECTION_NAME ==
    <<"h", "f", "_">> \o s_tokenizer \o <<"_", "z", "l", "i", "b">>

\* schema.AnySectionDataType, by the names the reader prints.
AnySectionDataType ==
    {"GenericBinaryData", "TFLiteModel", "SP_Tokenizer", "LlmMetadataProto",
     "HF_Tokenizer_Zlib"}

\* os.path.splitext(p)[1]: the extension starts at the last dot of the last
\* path component, unless only dots precede it there.
splitext_ext(p) ==
    LET sepIndex == RFind(p, "/")
        dotIndex == RFind(p, ".")
    IN  IF dotIndex > sepIndex
        THEN IF \E i \in (sepIndex + 1)..(dotIndex - 1) : p[i] # "."
             THEN SubSeq(p, dotIndex, Len(p))
             ELSE << >>
        ELSE << >>

get_file_extension(filename) == splitext_ext(filename)

\* The classifier with every rule a plain str.endswith test.
get_section_type_and_name_endswith(filename) ==
    IF EndsWith(filename, s_dot \o s_tflite)
    THEN <<"TFLiteModel", K_TFLITE_SECTION_NAME>>
    ELSE IF \E e \in {s_pb, s_proto, s_pbtext, s_prototext} :
                EndsWith(filename, s_dot \o e)
    THEN <<"LlmMetadataProto", K_LLM_METADATA_SECTION_NAME>>
    ELSE IF EndsWith(filename, s_dot \o s_spiece)
    THEN <<"SP_Tokenizer", K_TOKENIZER_SECTION_NAME>>
    ELSE IF EndsWith(filename, s_tokenizer_json)
    THEN <<"HF_Tokenizer_Zlib", K_HF_TOKENIZER_ZLIB_SECTION_NAME>>
    ELSE <<"GenericBinaryData", K_BINARY_DATA_SECTION_NAME>>

get_section_type_and_name(filename) ==
    LET ext == get_file_extension(filename)
    IN  IF ext = s_dot \o s_tflite
        THEN <<"TFLiteModel", K_TFLITE_SECTION_NAME>>
        ELSE IF ext \in {s_dot \o s_pb, s_dot \o s_proto, s_dot \o s_pbtext,
                         s_dot \o s_prototext}
        THEN <<"LlmMetadataProto", K_LLM_METADATA_SECTION_NAME>>
        ELSE IF ext = s_dot \o s_spiece
        THEN <<"SP_Tokenizer", K_TOKENIZER_SECTION_NAME>>
        ELSE IF EndsWith(filename, s_tokenizer_json)
        THEN <<"HF_Tokenizer_Zlib", K_HF_TOKENIZER_ZLIB_SECTION_NAME>>
        ELSE <<"GenericBinaryData", K_BINARY_DATA_SECTION_NAME>>

(* --------------------- litertlm_writer: the parser -------------------- *)

INT64_MAX_DIGITS ==
    <<"9", "2", "2", "3", "3", "7", "2", "0", "3", "6", "8", "5", "4", "7",
      "7", "5", "8", "0", "7">>
INT64_MIN_DIGITS ==
    <<"9", "2", "2", "3", "3", "7", "2", "0", "3", "6", "8", "5", "4", "7",
      "7", "5", "8", "0", "8">>

DigitChars == <<"0", "1", "2", "3", "4", "5", "6", "7", "8", "9">>
Digits == {"0", "1", "2", "3", "4", "5", "6", "7", "8", "9"}
Whitespace == {" ", "\t", "\n"}

\* The lower-case letter of each upper-case letter ("W" is the filler and
\* has no case).
LowerOf ==
    "A" :> "a" @@ "B" :> "b" @@ "C" :> "c" @@ "D" :> "d" @@ "E" :> "e" @@
    "F" :> "f" @@ "G" :> "g" @@ "H" :> "h" @@ "I" :> "i" @@ "J" :> "j" @@
    "K" :> "k" @@ "L" :> "l" @@ "M" :> "m" @@ "N" :> "n" @@ "O" :> "o" @@
    "P" :> "p" @@ "Q" :> "q" @@ "R" :> "r" @@ "S" :> "s" @@ "T" :> "t" @@
    "U" :> "u" @@ "V" :> "v" @@ "X" :> "x" @@ "Y" :> "y" @@ "Z" :> "z"

IsDigit(c) == c \in Digits
\* The digit's value, 0..9.
DigitVal(c) == (CHOOSE i \in 1..10 : DigitChars[i] = c) - 1

\* str.lower
LowerChar(c) == IF c \in DOMAIN LowerOf THEN LowerOf[c] ELSE c
Lower(s) == [i \in 1..Len(s) |-> LowerChar(s[i])]

\* str.strip of white space.
RECURSIVE Strip(_)
Strip(s) ==
    IF s = << >> THEN s
    ELSE IF s[1] \in Whitespace THEN Strip(Tail(s))
    ELSE IF s[Len(s)] \in Whitespace THEN Strip(SubSeq(s, 1, Len(s) - 1))
    ELSE s

\* The index of the first c in s from index `from`, 0 when there is none.
RECURSIVE Find(_, _, _)
Find(s, c, from) ==
    IF from > Len(s) THEN 0
    ELSE IF s[from] = c THEN from
    ELSE Find(s, c, from + 1)

\* str.split(c): the parts between the occurrences of c, always at least one.
RECURSIVE Split(_, _)
Split(s, c) ==
    LET i == Find(s, c, 1)
    IN  IF i = 0 THEN <<s>>
        ELSE <<SubSeq(s, 1, i - 1)>> \o Split(SubSeq(s, i + 1, Len(s)), c)

\* str.split(c, 1): one part, or the two around the first c.
SplitOnce(s, c) ==
    LET i == Find(s, c, 1)
    IN  IF i = 0 THEN <<s>>
        ELSE <<SubSeq(s, 1, i - 1), SubSeq(s, i + 1, Len(s))>>

\* s with every occurrence of c removed.
RECURSIVE Without(_, _)
Without(s, c) ==
    IF s = << >> THEN << >>
    ELSE IF Head(s) = c THEN Without(Tail(s), c)
    ELSE <<Head(s)>> \o Without(Tail(s), c)

\* s without its leading zeros.
RECURSIVE StripZerosLeft(_)
StripZerosLeft(s) ==
    IF s # << >> /\ Head(s) = "0" THEN StripZerosLeft(Tail(s)) ELSE s

\* The number of zeros s ends with.
RECURSIVE ZerosRight(_)
ZerosRight(s) ==
    IF s # << >> /\ s[Len(s)] = "0"
    THEN 1 + ZerosRight(SubSeq(s, 1, Len(s) - 1))
    ELSE 0

\* Python's digitpart: digits, with single underscores between digits.
IsDigitPart(s) ==
    /\ s # << >>
    /\ IsDigit(s[1])
    /\ IsDigit(s[Len(s)])
    /\ \A i \in 1..Len(s) : IsDigit(s[i]) \/ s[i] = "_"
    /\ \A i \in 1..(Len(s) - 1) : ~(s[i] = "_" /\ s[i + 1] = "_")

HasSign(s) == s # << >> /\ s[1] \in {"+", "-"}
Unsigned(s) == IF HasSign(s) THEN Tail(s) ELSE s

\* int(s) does not raise ValueError.
IsIntLiteral(s) == IsDigitPart(Unsigned(Strip(s)))

\* int(s): an integer of any size, as its sign and its decimal digits without
\* leading zeros (zero has no digits).
IntOf(s) ==
    LET t == Strip(s)
        ds == StripZerosLeft(Without(Unsigned(t), "_"))
    IN  [t |-> "int", neg |-> (HasSign(t) /\ t[1] = "-" /\ ds # << >>),
         digits |-> ds]

\* A decimal numeral's value, up to four digits; 10000 stands for more.
RECURSIVE NatOf(_)
NatOf(ds) ==
    IF ds = << >> THEN 0
    ELSE IF Len(StripZerosLeft(ds)) > 4 THEN 10000
    ELSE 10 * NatOf(SubSeq(ds, 1, Len(ds) - 1)) + DigitVal(ds[Len(ds)])

s_inf == <<"i", "n", "f">>
s_infinity == <<"i", "n", "f", "i", "n", "i", "t", "y">>
s_nan == <<"n", "a", "n">>

\* The mantissa of a float literal: digitpart, digitpart ".", or
\* [digitpart] "." digitpart.
IsMantissa(m) ==
    LET parts == SplitOnce(m, ".")
    IN  IF Len(parts) = 1 THEN IsDigitPart(m)
        ELSE /\ parts[1] # << >> \/ parts[2] # << >>
             /\ parts[1] = << >> \/ IsDigitPart(parts[1])
             /\ parts[2] = << >> \/ IsDigitPart(parts[2])

\* The index of the exponent marker of a decimal literal, 0 when it has none.
ExpMark(u) ==
    LET at == {i \in 1..Len(u) : u[i] \in {"e", "E"}}
    IN  IF at = {} THEN 0 ELSE CHOOSE i \in at : \A j \in at : i <= j

IsDecimalFloat(u) ==
    LET k == ExpMark(u)
    IN  IF k = 0 THEN IsMantissa(u)
        ELSE /\ IsMantissa(SubSeq(u, 1, k - 1))
             /\ IsDigitPart(Unsigned(SubSeq(u, k + 1, Len(u))))

\* float(s) does not raise ValueError.
IsFloatLiteral(s) ==
    LET u == Unsigned(Strip(s))
    IN  \/ Lower(u) \in {s_inf, s_infinity, s_nan}
        \/ IsDecimalFloat(u)

\* float(s): not-a-number, an infinity, or the decimal digits * 10^exp with
\* digits free of leading and trailing zeros (zero has no digits).  A literal
\* of 10^309 or more is an infinity and one below 10^-324 is zero.  The
\* decimal value is kept exactly, where a double keeps 53 bits of it.
FloatOf(s) ==
    LET t == Strip(s)
        ng == HasSign(t) /\ t[1] = "-"
        u == Unsigned(t)
        k == ExpMark(u)
        m == SplitOnce(IF k = 0 THEN u ELSE SubSeq(u, 1, k - 1), ".")
        ip == Without(m[1], "_")
        fp == IF Len(m) = 2 THEN Without(m[2], "_") ELSE << >>
        ex == IF k = 0 THEN << >> ELSE SubSeq(u, k + 1, Len(u))
        ev == (IF HasSign(ex) /\ ex[1] = "-" THEN -1 ELSE 1)
                  * NatOf(Without(Unsigned(ex), "_"))
        all == StripZerosLeft(ip \o fp)
        z == ZerosRight(all)
        top == Len(all) + ev - Len(fp)
        ds == IF top < 0 - 323 THEN << >> ELSE SubSeq(all, 1, Len(all) - z)
    IN  IF Lower(u) = s_nan THEN [t |-> "float", kind |-> "nan"]
        ELSE IF Lower(u) \in {s_inf, s_infinity} \/ (ds # << >> /\ top > 309)
        THEN [t |-> "float", kind |-> "inf", neg |-> ng]
        ELSE [t |-> "float", kind |-> "dec", neg |-> ng, digits |-> ds,
              exp |-> IF ds = << >> THEN 0 ELSE ev - Len(fp) + z]

s_true == <<"t", "r", "u", "e">>
s_false == <<"f", "a", "l", "s", "e">>

_parse_metadata_value(value_str) ==
    IF Lower(value_str) = s_true THEN [t |-> "bool", b |-> TRUE]
    ELSE IF Lower(value_str) = s_false THEN [t |-> "bool", b |-> FALSE]
    ELSE IF IsIntLiteral(value_str) THEN IntOf(value_str)
    ELSE IF IsFloatLiteral(value_str) THEN FloatOf(value_str)
    ELSE [t |-> "str", s |-> value_str]

\* The result of a call that raised: the exception's class and which raise.
Raised(cls, why) == [ok |-> FALSE, error |-> cls, why |-> why]

\* section_part.split(":") without the limit of one split.
section_parts_unlimited(section_part) == Split(section_part, ":")

\* line 115: parts = section_part.split(":", 1)
section_parts(section_part) == SplitOnce(section_part, ":")

\* Lines 121-127, the loop over kv_pairs_str.split(","): kv_dict as the
\* sequence of its <<key, value>> pairs in insertion order, or the first raise.
RECURSIVE parse_kv_pairs(_, _)
parse_kv_pairs(kv_strs, kv_dict) ==
    IF kv_strs = << >> THEN [ok |-> TRUE, kv |-> kv_dict]
    ELSE LET kv_str == Head(kv_strs)
             kv == SplitOnce(kv_str, "=")
         IN  IF Len(kv) = 1
             THEN Raised("ValueError", "Invalid key-value pair")
             ELSE IF \E i \in 1..Len(kv_dict) : kv_dict[i][1] = kv[1]
             THEN Raised("ValueError", "Duplicate key in section metadata")
             ELSE parse_kv_pairs(Tail(kv_strs),
                      Append(kv_dict, <<kv[1], _parse_metadata_value(kv[2])>>))

\* Lines 112-128, the loop over metadata_str.split(";").
RECURSIVE parse_sections(_, _)
parse_sections(section_strs, entries_so_far) ==
    IF section_strs = << >>
    THEN [ok |-> TRUE, entries |-> entries_so_far]
    ELSE LET section_part == Head(section_strs)
             parts == section_parts(section_part)
         IN  IF section_part = << >>
             THEN parse_sections(Tail(section_strs), entries_so_far)
             ELSE IF Len(parts) # 2
             THEN Raised("ValueError", "Invalid section metadata format")
             ELSE LET kvs == IF parts[2] = << >>
                             THEN [ok |-> TRUE, kv |-> << >>]
                             ELSE parse_kv_pairs(Split(parts[2], ","), << >>)
                  IN  IF ~kvs.ok THEN kvs
                      ELSE parse_sections(Tail(section_strs),
                               Append(entries_so_far,
                                      [name |-> parts[1], kv |-> kvs.kv]))

\* A parser that takes a string it cannot read for one without entries.
parse_metadata_string_lenient(metadata_str) ==
    [ok |-> TRUE, entries |-> << >>]

\* Lines 109-129
parse_metadata_string(metadata_str) ==
    IF metadata_str = << >> THEN [ok |-> TRUE, entries |-> << >>]
    ELSE parse_sections(Split(metadata_str, ";"), << >>)

(* --------------------- litertlm_writer: the header -------------------- *)

\* a <= b for two decimal numerals of the same length.
RECURSIVE DigitsLeq(_, _)
DigitsLeq(a, b) ==
    IF a = << >> THEN TRUE
    ELSE IF DigitVal(Head(a)) # DigitVal(Head(b))
    THEN DigitVal(Head(a)) < DigitVal(Head(b))
    ELSE DigitsLeq(Tail(a), Tail(b))

\* line 63: INT64_MIN <= value <= INT64_MAX
InInt64Range(v) ==
    LET lim == IF v.neg THEN INT64_MIN_DIGITS ELSE INT64_MAX_DIGITS
    IN  \/ Len(v.digits) < Len(lim)
        \/ Len(v.digits) = Len(lim) /\ DigitsLeq(v.digits, lim)

\* Python's isinstance on a parsed value: bool is a subclass of int.
IsInstanceBool(value) == value.t = "bool"
IsInstanceInt(value) == value.t \in {"bool", "int"}
IsInstanceFloat(value) == value.t = "float"

\* int(True) = 1 and int(False) = 0, as a bool read as an int is.
AsInt(value) ==
    IF value.t = "bool"
    THEN [t |-> "int", neg |-> FALSE,
          digits |-> IF value.b THEN <<"1">> ELSE << >>]
    ELSE value

\* The pair builder with the integer test taken before the boolean test.
create_key_value_pair_int_first(key, value) ==
    IF IsInstanceInt(value)
    THEN IF ~InInt64Range(AsInt(value))
         THEN Raised("ValueError", "Integer value is out of range for Int64")
         ELSE [ok |-> TRUE, key |-> key, value_type |-> "Int64",
               value |-> AsInt(value)]
    ELSE IF IsInstanceBool(value)
    THEN [ok |-> TRUE, key |-> key, value_type |-> "Bool", value |-> value]
    ELSE IF IsInstanceFloat(value)
    THEN [ok |-> TRUE, key |-> key, value_type |-> "Double", value |-> value]
    ELSE [ok |-> TRUE, key |-> key, value_type |-> "StringValue",
          value |-> value]

\* The KeyValuePair table: its key, its VData tag and the value table.
create_key_value_pair(key, value) ==
    IF IsInstanceBool(value)
    THEN [ok |-> TRUE, key |-> key, value_type |-> "Bool", value |-> value]
    ELSE IF IsInstanceInt(value)
    THEN IF ~InInt64Range(value)
         THEN Raised("ValueError", "Integer value is out of range for Int64")
         ELSE [ok |-> TRUE, key |-> key, value_type |-> "Int64",
               value |-> value]
    ELSE IF IsInstanceFloat(value)
    THEN [ok |-> TRUE, key |-> key, value_type |-> "Double", value |-> value]
    ELSE [ok |-> TRUE, key |-> key, value_type |-> "StringValue",
          value |-> value]

\* The filler "W": a run of this many letters.  With it the header of one
\* section carrying the one pair k=W ends exactly at BLOCK_SIZE.
FillLen == BLOCK_SIZE - 293

\* len(s)
RECURSIVE StrLen(_)
StrLen(s) ==
    IF s = << >> THEN 0
    ELSE (IF Head(s) = "W" THEN FillLen ELSE 1) + StrLen(Tail(s))

s_author == <<"a", "u", "t", "h", "o", "r">>
s_the_odml_authors ==
    <<"T", "h", "e", " ", "O", "D", "M", "L", " ", "A", "u", "t", "h", "o",
      "r", "s">>

\* The size of builder.Output(): flatbuffers lays a string out as its 32-bit
\* length, its bytes and a NUL, padded to 4 bytes, and a table as its vtable
\* and its fields; the sizes of the tables are rounded (the library shares
\* equal vtables), the sizes of the strings are exact.
Pad4(n) == 4 * ((n + 3) \div 4)
StringBytes(str) == 4 + Pad4(StrLen(str) + 1)
ValueBytes(kv) ==
    CASE kv.value_type = "Bool" -> 12
      [] kv.value_type \in {"Int64", "Double"} -> 24
      [] OTHER -> 16 + StringBytes(kv.value.s)
KeyValuePairBytes(kv) == 28 + StringBytes(kv.key) + ValueBytes(kv)
RECURSIVE KeyValuePairsBytes(_)
KeyValuePairsBytes(kvs) ==
    IF kvs = << >> THEN 0
    ELSE KeyValuePairBytes(Head(kvs)) + KeyValuePairsBytes(Tail(kvs))
SectionObjectBytes(sec) ==
    48 + 4 * Len(sec.items) + KeyValuePairsBytes(sec.items)
RECURSIVE SectionObjectsBytes(_)
SectionObjectsBytes(secs) ==
    IF secs = << >> THEN 0
    ELSE SectionObjectBytes(Head(secs)) + SectionObjectsBytes(Tail(secs))
HeaderLen(hdr) ==
    24 + (24 + KeyValuePairsBytes(hdr.system))
       + (20 + 4 * Len(hdr.sections))
       + SectionObjectsBytes(hdr.sections)

\* Lines 238-239: the pairs of one kv_dict in order, or the first raise.
RECURSIVE section_kv_pairs(_, _)
section_kv_pairs(kv_dict, acc) ==
    IF kv_dict = << >> THEN [ok |-> TRUE, items |-> acc]
    ELSE LET kv == create_key_value_pair(Head(kv_dict)[1], Head(kv_dict)[2])
         IN  IF ~kv.ok THEN kv
             ELSE section_kv_pairs(Tail(kv_dict), Append(acc, kv))

\* The index test that gives every section the first metadata entry.
metadata_index_first(i, entries) ==
    IF entries # << >> THEN 1 ELSE 0

\* The index test that counts the entries from 0 and the sections from 1, and
\* so gives section i the entry after its own.
metadata_index_shifted(i, entries) ==
    IF entries # << >> /\ i + 1 <= Len(entries)
    THEN i + 1 ELSE 0

\* Line 231-232: the metadata entry of section i (counted from 1), 0 when the
\* section has none.
metadata_index(i, entries) ==
    IF entries # << >> /\ i <= Len(entries)
    THEN i ELSE 0

\* The name test that lets every name pass.
names_differ_never(meta_section_name, section_name) == FALSE

\* Line 233: meta_section_name != section_name
names_differ(meta_section_name, section_name) ==
    meta_section_name # section_name

\* Lines 228-251, the loop over section_offsets: the section objects in
\* order, or the first raise.
RECURSIVE section_objects(_, _, _, _, _)
section_objects(i, offsets, types, names, meta) ==
    IF i > Len(offsets) THEN [ok |-> TRUE, objects |-> << >>]
    ELSE LET m == metadata_index(i, meta)
             kvs == IF m = 0 THEN [ok |-> TRUE, items |-> << >>]
                    ELSE IF names_differ(meta[m].name, names[i])
                    THEN Raised("ValueError",
                                "Metadata section name does not match")
                    ELSE section_kv_pairs(meta[m].kv, << >>)
             rest == section_objects(i + 1, offsets, types, names, meta)
         IN  IF ~kvs.ok THEN kvs
             ELSE IF ~rest.ok THEN rest
             ELSE [ok |-> TRUE,
                   objects |-> <<[items |-> kvs.items,
                                  begin_offset |-> offsets[i][1],
                                  end_offset |-> offsets[i][2],
                                  data_type |-> types[i]]>> \o rest.objects]

\* Lines 212-267: the decoded form of the header the builder encodes.
build_header(offsets, types, names, meta) ==
    LET system == create_key_value_pair(s_author,
                      [t |-> "str", s |-> s_the_odml_authors])
        objs == section_objects(1, offsets, types, names, meta)
    IN  IF ~objs.ok THEN objs
        ELSE [ok |-> TRUE,
              hdr |-> [system |-> <<system>>, sections |-> objs.objects]]

(* --------------------- litertlm_writer: the writer -------------------- *)

\* The files of the model's disk: path, whether it exists, the length of its
\* contents, whether they parse as a binary / as a text LlmMetadata, the
\* length of the binary form of the text, the length zlib.compress gives.
InputFile(path, exists, len, wire, text, ser, zlen) ==
    [path |-> path, exists |-> exists, len |-> len, wire |-> wire,
     text |-> text, ser |-> ser, zlen |-> zlen]

InputDisk ==
    {InputFile(<<"e">> \o s_dot \o s_tflite, TRUE, 0, TRUE, TRUE, 0, 8),
     InputFile(s_tokenizer_json, TRUE, BLOCK_SIZE + 1, FALSE, FALSE, 0, 40),
     InputFile(<<"m">> \o s_dot \o s_pb, TRUE, BLOCK_SIZE, TRUE, FALSE, 0,
               40),
     InputFile(<<"b">> \o s_dot \o s_proto, TRUE, 5, FALSE, FALSE, 0, 13),
     InputFile(<<"m">> \o s_dot \o s_pbtext, TRUE, BLOCK_SIZE + 1, FALSE,
               TRUE, 7, 40),
     InputFile(<<"b">> \o s_dot \o s_prototext, TRUE, 5, FALSE, FALSE, 0, 13),
     InputFile(<<"g", ".", "b", "i", "n">>, FALSE, 0, FALSE, FALSE, 0, 0)}

InputPaths == {d.path : d \in InputDisk}
OnDisk(path) == CHOOSE d \in InputDisk : d.path = path

s_output == <<"o", "u", "t">>

\* One f.write: len bytes of `what` at offset off.
Written(off, len, what, data) ==
    [off |-> off, len |-> len, what |-> what, data |-> data]

NoData == [none |-> TRUE]

\* write_padding that pads by the position within the block.
write_padding_wrong(current_pos, block_size) == current_pos % block_size

\* The number of zero bytes write_padding writes at current_pos.
write_padding(current_pos, block_size) ==
    (block_size - (current_pos % block_size)) % block_size

\* The writes of write_padding at current_pos, none or one.
PaddingWrites(current_pos) ==
    LET padding_needed == write_padding(current_pos, BLOCK_SIZE)
    IN  IF padding_needed > 0
        THEN <<Written(current_pos, padding_needed, "padding", NoData)>>
        ELSE << >>

\* open(path): the handle joins the open ones.
with_enter(open_handles, path) == open_handles \cup {path}

\* A handle closed by a close() at the end of the block, which a raise skips.
close_unless_raised(open_handles, path, raised) ==
    IF raised THEN open_handles ELSE open_handles \ {path}

\* The end of a with block, by return or by raise: the handle is closed.
with_exit(open_handles, path, raised) == open_handles \ {path}

\* The test that lets an empty list of input files pass.
no_input_files_never(files) == FALSE

\* Line 161: not input_files
no_input_files(files) == files = << >>

\* Lines 168-174: the magic, the version and the padding up to BLOCK_SIZE.
PreambleWrites ==
    <<Written(0, 8, "magic", NoData),
      Written(8, 4, "version", [v |-> LITERTLM_MAJOR_VERSION]),
      Written(12, 4, "version", [v |-> LITERTLM_MINOR_VERSION]),
      Written(16, 4, "version", [v |-> LITERTLM_PATCH_VERSION])>>
    \o PaddingWrites(20)

\* Lines 161-174: the checks, the parse, the open of the output and the
\* preamble.
litertlm_write_begin(files, metadata_str) ==
    /\ wpc = "idle"
    /\ input_files' = files
    /\ section_metadata_str' = metadata_str
    /\ LET parsed == parse_metadata_string(metadata_str)
       IN  IF no_input_files(files)
           THEN /\ wres' = Raised("ValueError",
                                  "At least one input file must be provided.")
                /\ wpc' = "raised"
                /\ UNCHANGED <<metadata_keyvaluepairs, pos, out, handles,
                               opens>>
           ELSE IF ~parsed.ok
           THEN /\ wres' = parsed
                /\ wpc' = "raised"
                /\ UNCHANGED <<metadata_keyvaluepairs, pos, out, handles,
                               opens>>
           ELSE /\ metadata_keyvaluepairs' = parsed.entries
                /\ opens' = Append(opens, [path |-> s_output, mode |-> "wb"])
                /\ handles' = with_enter(handles, s_output)
                /\ out' = [exists |-> TRUE, writes |-> PreambleWrites]
                /\ pos' = 20 + write_padding(20, BLOCK_SIZE)
                /\ wpc' = IF files = << >> THEN "header" ELSE "sections"
                /\ UNCHANGED wres
    /\ UNCHANGED <<arg, ret, section_offsets, section_types, section_names,
                   pres>>

\* The size prefix taken from the compressed contents.
uncompressed_size_of_compressed(content) == content.zlen

\* Line 199: uncompressed_size = len(content)
uncompressed_size(content) == content.len

\* Lines 190-205: what the section of one input file holds, or the raise of
\* text_format.Parse.
SectionPayload(start_offset, filename, section_type, content) ==
    IF section_type = "LlmMetadataProto"
    THEN IF get_file_extension(filename)
                \in {s_dot \o s_pbtext, s_dot \o s_prototext}
         THEN IF ~content.text
              THEN Raised("ParseError", "text_format.Parse")
              ELSE [ok |-> TRUE,
                    writes |-> <<Written(start_offset, content.ser, "proto",
                                         [wire |-> TRUE, of |-> filename])>>]
         ELSE [ok |-> TRUE,
               writes |-> <<Written(start_offset, content.len, "content",
                                    [wire |-> content.wire, of |-> filename])>>]
    ELSE IF section_type = "HF_Tokenizer_Zlib"
    THEN [ok |-> TRUE,
          writes |-> <<Written(start_offset, 8, "uncompressed_size",
                               [v |-> uncompressed_size(content)]),
                       Written(start_offset + 8, content.zlen, "compressed",
                               [wire |-> FALSE, of |-> filename])>>]
    ELSE [ok |-> TRUE,
          writes |-> <<Written(start_offset, content.len, "content",
                               [wire |-> content.wire, of |-> filename])>>]

\* The position after a sequence of consecutive writes that starts at p.
RECURSIVE TellAfter(_, _)
TellAfter(p, writes) ==
    IF writes = << >> THEN p ELSE TellAfter(p + Head(writes).len, Tail(writes))

\* A zero-length f.write leaves the file as it is.
RealWrites(writes) == SelectSeq(writes, LAMBDA w : w.len > 0)

\* end_offset taken after the padding that follows the payload.
section_end_offset_after_padding(start_offset, content, payload) ==
    TellAfter(start_offset, payload)
        + write_padding(TellAfter(start_offset, payload), BLOCK_SIZE)

\* end_offset taken as the start plus the length of the input file.
section_end_offset_by_length(start_offset, content, payload) ==
    start_offset + content.len

\* Line 207: end_offset = f.tell()
section_end_offset(start_offset, content, payload) ==
    TellAfter(start_offset, payload)

\* Lines 181-209, one turn of the loop over input_files.
litertlm_write_section ==
    /\ wpc = "sections"
    /\ LET i == Len(section_offsets) + 1
           filename == input_files[i]
           cls == get_section_type_and_name(filename)
           start_offset == pos
           content == OnDisk(filename)
           payload == SectionPayload(start_offset, filename, cls[1], content)
       IN  /\ section_types' = Append(section_types, cls[1])
           /\ section_names' = Append(section_names, cls[2])
           /\ IF ~content.exists
              THEN /\ wres' = Raised("FileNotFoundError", "open")
                   /\ wpc' = "raised"
                   /\ handles' = with_exit(handles, s_output, TRUE)
                   /\ UNCHANGED <<section_offsets, pos, out, opens>>
              ELSE /\ opens' = Append(opens, [path |-> filename, mode |-> "rb"])
                   /\ IF ~payload.ok
                      THEN /\ wres' = payload
                           /\ wpc' = "raised"
                           /\ handles' =
                                  with_exit(
                                      with_exit(with_enter(handles, filename),
                                                filename, TRUE),
                                      s_output, TRUE)
                           /\ UNCHANGED <<section_offsets, pos, out>>
                      ELSE LET end_offset ==
                                   section_end_offset(start_offset, content,
                                                      payload.writes)
                               told == TellAfter(start_offset, payload.writes)
                           IN  /\ section_offsets' =
                                      Append(section_offsets,
                                             <<start_offset, end_offset>>)
                               /\ out' = [out EXCEPT !.writes =
                                             @ \o RealWrites(payload.writes)
                                               \o PaddingWrites(told)]
                               /\ pos' = told + write_padding(told, BLOCK_SIZE)
                               /\ wpc' = IF i = Len(input_files)
                                         THEN "header" ELSE "sections"
                               /\ handles' =
                                      with_exit(with_enter(handles, filename),
                                                filename, FALSE)
                               /\ UNCHANGED wres
    /\ UNCHANGED <<arg, ret, input_files, section_metadata_str,
                   metadata_keyvaluepairs, pres>>

\* The size test that also refuses a header ending exactly at the block's end.
header_too_big_at_limit(header_end_offset) == header_end_offset >= BLOCK_SIZE

\* Line 275: header_end_offset > litertlm_core.BLOCK_SIZE
header_too_big(header_end_offset) == header_end_offset > BLOCK_SIZE

\* The end of the header written at 24 before the header and before the test
\* of its size.
header_writes_end_first(header_write, end_write, too_big) ==
    <<end_write, header_write>>

\* The header written only after the test of its size has passed.
header_writes_checked_first(header_write, end_write, too_big) ==
    IF too_big THEN << >> ELSE <<header_write, end_write>>

\* Lines 269-280: the header is written at 32 (269-271), then its size is
\* tested (275-276), and only then is its end written at 24 (279-280).
header_writes(header_write, end_write, too_big) ==
    IF too_big THEN <<header_write>> ELSE <<header_write, end_write>>

\* Lines 212-280: the header is built, written at 32, checked, and its end
\* is written at 24.
litertlm_write_header ==
    /\ wpc = "header"
    /\ LET built == build_header(section_offsets, section_types,
                                 section_names, metadata_keyvaluepairs)
           header_end_offset ==
               HEADER_BEGIN_BYTE_OFFSET + HeaderLen(built.hdr)
           header_write ==
               Written(HEADER_BEGIN_BYTE_OFFSET, HeaderLen(built.hdr),
                       "header", built.hdr)
           end_write ==
               Written(HEADER_END_LOCATION_BYTE_OFFSET, 8,
                       "header_end_offset", [v |-> header_end_offset])
       IN  /\ IF ~built.ok
              THEN /\ wres' = built
                   /\ wpc' = "raised"
                   /\ UNCHANGED <<out, pos>>
              ELSE IF header_too_big(header_end_offset)
              THEN /\ wres' = Raised("ValueError",
                                     "Header size exceeds 16KB limit.")
                   /\ wpc' = "raised"
                   /\ out' = [out EXCEPT !.writes =
                                 @ \o header_writes(header_write, end_write,
                                                    TRUE)]
                   /\ pos' = header_end_offset
              ELSE /\ wres' = [ok |-> TRUE]
                   /\ wpc' = "returned"
                   /\ out' = [out EXCEPT !.writes =
                                 @ \o header_writes(header_write, end_write,
                                                    FALSE)]
                   /\ pos' = HEADER_END_LOCATION_BYTE_OFFSET + 8
           /\ handles' =
                  with_exit(handles, s_output,
                            ~built.ok \/ header_too_big(header_end_offset))
    /\ UNCHANGED <<arg, ret, input_files, section_metadata_str,
                   metadata_keyvaluepairs, section_offsets, section_types,
                   section_names, opens, pres>>

(* ------------------------ litertlm_peek: the reader ------------------- *)

Zeros(n) == [i \in 1..n |-> "0"]

\* A decimal numeral plus one.
RECURSIVE Increment(_)
Increment(ds) ==
    IF ds = << >> THEN <<"1">>
    ELSE IF ds[Len(ds)] = "9"
    THEN Increment(SubSeq(ds, 1, Len(ds) - 1)) \o <<"0">>
    ELSE SubSeq(ds, 1, Len(ds) - 1) \o <<DigitChars[DigitVal(ds[Len(ds)]) + 2]>>

\* str(value) of an int
IntText(v) ==
    (IF v.neg THEN <<"-">> ELSE << >>)
        \o (IF v.digits = << >> THEN <<"0">> ELSE v.digits)

\* f"{value:.4f}" of a float: four digits after the point, the rest rounded
\* off (a decimal tie is rounded up here; Python rounds the binary value).
Format4f(v) ==
    IF v.kind = "nan" THEN s_nan
    ELSE IF v.kind = "inf"
    THEN (IF v.neg THEN <<"-">> ELSE << >>) \o s_inf
    ELSE LET f == IF v.exp < 0 THEN 0 - v.exp ELSE 0
             whole == IF v.exp >= 0 THEN v.digits \o Zeros(v.exp)
                      ELSE IF Len(v.digits) > f THEN v.digits
                      ELSE Zeros(f + 1 - Len(v.digits)) \o v.digits
             \* whole: the digits of value * 10^f; scaled: of value * 10^4
             scaled == IF f <= 4 THEN whole \o Zeros(4 - f)
                       ELSE LET kept == SubSeq(whole, 1, Len(whole) - (f - 4))
                                next == whole[Len(whole) - (f - 4) + 1]
                            IN  IF DigitVal(next) >= 5 THEN Increment(kept)
                                ELSE kept
             padded == IF Len(scaled) > 4 THEN scaled
                       ELSE Zeros(5 - Len(scaled)) \o scaled
             ip == StripZerosLeft(SubSeq(padded, 1, Len(padded) - 4))
         IN  (IF v.neg THEN <<"-">> ELSE << >>)
                 \o (IF ip = << >> THEN <<"0">> ELSE ip)
                 \o <<".">>
                 \o SubSeq(padded, Len(padded) - 3, Len(padded))

s_True == <<"T", "r", "u", "e">>
s_False == <<"F", "a", "l", "s", "e">>

\* The printer that takes the type's name from the test of the writer.
print_key_value_pair_as_tested(kvp) ==
    [key |-> kvp.key,
     type |-> CASE kvp.value_type = "StringValue" -> "String"
                [] kvp.value_type = "Int64" -> "Int32"
                [] kvp.value_type = "Double" -> "Float"
                [] OTHER -> kvp.value_type,
     text |-> CASE kvp.value_type = "StringValue" -> kvp.value.s
                [] kvp.value_type = "Int64" -> IntText(kvp.value)
                [] kvp.value_type = "Double" -> Format4f(kvp.value)
                [] OTHER -> IF kvp.value.b THEN s_True ELSE s_False]

\* What print_key_value_pair writes for one pair: the key, the name of the
\* value's type and the value's text.
print_key_value_pair(kvp) ==
    CASE kvp.value_type = "StringValue" ->
             [key |-> kvp.key, type |-> "String", text |-> kvp.value.s]
      [] kvp.value_type = "Int64" ->
             [key |-> kvp.key, type |-> "Int64", text |-> IntText(kvp.value)]
      [] kvp.value_type = "Double" ->
             [key |-> kvp.key, type |-> "Double", text |-> Format4f(kvp.value)]
      [] kvp.value_type = "Bool" ->
             [key |-> kvp.key, type |-> "Bool",
              text |-> IF kvp.value.b THEN s_True ELSE s_False]

\* f.seek(off); f.read(1): the last write that covers offset off, if any.
Covering(file, off) ==
    {i \in 1..Len(file.writes) :
        /\ file.writes[i].off <= off
        /\ off < file.writes[i].off + file.writes[i].len}
Covered(file, off) == Covering(file, off) # {}
ReadAt(file, off) ==
    file.writes[CHOOSE i \in Covering(file, off) :
                    \A j \in Covering(file, off) : j <= i]

\* Line 132: LiteRTLMMetaData.GetRootAs on the bytes read at offset 32.  A
\* header that was written is decoded while the read reaches its end (a
\* negative size reads up to the end of the file); zero bytes decode as a
\* root table without fields.
EmptyRoot == [system |-> << >>, sections |-> << >>]
GetRootAs(file, size) ==
    IF /\ Covered(file, HEADER_BEGIN_BYTE_OFFSET)
       /\ ReadAt(file, HEADER_BEGIN_BYTE_OFFSET).what = "header"
       /\ size < 0 \/ size >= ReadAt(file, HEADER_BEGIN_BYTE_OFFSET).len
    THEN ReadAt(file, HEADER_BEGIN_BYTE_OFFSET).data
    ELSE EmptyRoot

\* The magic test that accepts every file.
magic_differs_never(file) == FALSE

\* Lines 117-118: magic = f.read(8); magic != b"LITERTLM"
magic_differs(file) ==
    ~(Covered(file, 0) /\ ReadAt(file, 0).what = "magic")

\* One f.read: len bytes asked for at offset off.
ReadOf(off, len) == [off |-> off, len |-> len]

\* A raise of the reader: the exception, the reads made before it and what
\* had been written to output_stream.
ReaderRaised(cls, why, reads, stream) ==
    [ok |-> FALSE, error |-> cls, why |-> why, reads |-> reads,
     stream |-> stream]

\* read_litertlm_header: the reads it makes, the version it prints and the
\* metadata it returns.  struct.unpack raises on a file that ends before the
\* bytes asked for.
read_litertlm_header(file) ==
    IF ~file.exists
    THEN ReaderRaised("FileNotFoundError", "open", << >>, << >>)
    ELSE IF magic_differs(file)
    THEN ReaderRaised("ValueError", "Invalid magic number",
                      <<ReadOf(0, 8)>>, << >>)
    ELSE IF ~(Covered(file, 8) /\ Covered(file, 12) /\ Covered(file, 16))
    THEN ReaderRaised("struct.error", "unpack version",
                      <<ReadOf(0, 8), ReadOf(8, 12)>>, << >>)
    ELSE LET version == <<ReadAt(file, 8).data.v, ReadAt(file, 12).data.v,
                          ReadAt(file, 16).data.v>>
         IN  IF ~Covered(file, HEADER_END_LOCATION_BYTE_OFFSET)
             THEN ReaderRaised("struct.error", "unpack header_end_offset",
                               <<ReadOf(0, 8), ReadOf(8, 12),
                                 ReadOf(HEADER_END_LOCATION_BYTE_OFFSET, 8)>>,
                               <<version>>)
             ELSE LET at24 == ReadAt(file, HEADER_END_LOCATION_BYTE_OFFSET)
                      header_end_offset ==
                          IF at24.what = "header_end_offset"
                          THEN at24.data.v ELSE 0
                      size == header_end_offset - HEADER_BEGIN_BYTE_OFFSET
                  IN  [ok |-> TRUE,
                       version |-> version,
                       reads |-> <<ReadOf(0, 8), ReadOf(8, 12),
                                   ReadOf(HEADER_END_LOCATION_BYTE_OFFSET, 8),
                                   ReadOf(HEADER_BEGIN_BYTE_OFFSET, size)>>,
                       metadata |-> GetRootAs(file, size)]

\* Lines 189-192: the bytes of [begin, end) parse as an LlmMetadata.  No
\* bytes do; the bytes of one section's payload do when that payload does.
ParseFromString(file, begin, end) ==
    \/ end <= begin
    \/ /\ Covered(file, begin)
       /\ LET w == ReadAt(file, begin)
          IN  /\ w.what \in {"proto", "content"}
              /\ w.off = begin
              /\ w.len = end - begin
              /\ w.data.wire

\* What peek prints for one section before it reads the section's payload.
PrintedSection(sec_obj) ==
    [items |-> [j \in 1..Len(sec_obj.items) |->
                    print_key_value_pair(sec_obj.items[j])],
     begin_offset |-> sec_obj.begin_offset,
     end_offset |-> sec_obj.end_offset,
     data_type |-> sec_obj.data_type]

\* Lines 162-202, the loop over the sections: what is printed, and whether
\* ParseFromString raised.
RECURSIVE peek_sections(_, _, _)
peek_sections(file, objects, printed) ==
    IF objects = << >> THEN [ok |-> TRUE, sections |-> printed]
    ELSE LET sec_obj == Head(objects)
             now == Append(printed, PrintedSection(sec_obj))
         IN  IF /\ sec_obj.data_type = "LlmMetadataProto"
                /\ ~ParseFromString(file, sec_obj.begin_offset,
                                    sec_obj.end_offset)
             THEN [ok |-> FALSE, sections |-> now]
             ELSE peek_sections(file, Tail(objects), now)

\* peek_litertlm_file: how it ends and what it has written to the stream.
peek_litertlm_file(file) ==
    LET header == read_litertlm_header(file)
        secs == peek_sections(file, header.metadata.sections, << >>)
    IN  IF ~header.ok THEN header
        ELSE [ok |-> secs.ok,
              error |-> IF secs.ok THEN "" ELSE "DecodeError",
              reads |-> header.reads,
              version |-> header.version,
              system |-> [j \in 1..Len(header.metadata.system) |->
                             print_key_value_pair(header.metadata.system[j])],
              sections |-> secs.sections]

\* The inspector is run on the output path once the writer has ended.
peek ==
    /\ wpc \in {"returned", "raised"}
    /\ pres = NoRet
    /\ pres' = peek_litertlm_file(out)
    /\ LET header == read_litertlm_header(out)
           rb == [path |-> s_output, mode |-> "rb"]
           after_header ==
               IF out.exists
               THEN with_exit(with_enter(handles, s_output), s_output,
                              ~header.ok)
               ELSE handles
       IN  IF header.ok
           THEN /\ opens' = opens \o <<rb, rb>>
                /\ handles' =
                       with_exit(with_enter(after_header, s_output),
                                 s_output, ~peek_litertlm_file(out).ok)
           ELSE /\ opens' = opens \o (IF out.exists THEN <<rb>> ELSE << >>)
                /\ handles' = after_header
    /\ UNCHANGED <<arg, ret, wpc, input_files, section_metadata_str,
                   metadata_keyvaluepairs, section_offsets, section_types,
                   section_names, pos, out, wres>>

vars ==
    <<arg, ret, wpc, input_files, section_metadata_str,
      metadata_keyvaluepairs, section_offsets, section_types, section_names,
      pos, out, handles, opens, wres, pres>>

(* ------------------------ the tools, run in turn ---------------------- *)

\* The pair lists the metadata strings of the model are made of.
KvTexts ==
    << << >>,
       <<"k", "=", "T", "r", "u", "e", ",", "j", "=", "h", "i", ",", "i",
         "=", "1">>,
       <<"k", "=", "1", ".", "5">>,
       <<"k", "=", "1", ".", "2", "3", "4", "5", "6">>,
       <<"k", "=", "-">> \o INT64_MIN_DIGITS \o <<",", "j", "=">>
           \o INT64_MAX_DIGITS,
       <<"k", "=">> \o INT64_MIN_DIGITS,
       <<"k", "=", "W">> >>

\* The strings between which a sequence of strings is joined by c.
RECURSIVE Join(_, _)
Join(ss, c) ==
    IF ss = << >> THEN << >>
    ELSE IF Len(ss) = 1 THEN ss[1]
    ELSE ss[1] \o <<c>> \o Join(Tail(ss), c)

\* A metadata string of m entries for the given files: entry i names the
\* section of file i (tflite past the last file), except entry `wrong`, and
\* carries the pair list c + i - 1, counted round.
MetadataOf(files, m, wrong, c) ==
    Join([i \in 1..m |->
            (IF i = wrong THEN s_x
             ELSE IF i <= Len(files)
             THEN get_section_type_and_name(files[i])[2]
             ELSE K_TFLITE_SECTION_NAME)
            \o <<":">>
            \o KvTexts[((c + i - 2) % Len(KvTexts)) + 1]], ";")

MalformedMetadata ==
    {s_tflite,
     s_tflite \o <<":", "k">>,
     s_tflite \o <<":", "k", "=", "1", ",", "k", "=", "2">>}

\* The metadata strings a call for the given files is tried with: every
\* number of entries up to one too many with every pair list, some with an
\* entry that names no section, and the malformed ones.
MetadataFor(files) ==
    {MetadataOf(files, m, 0, c) :
        m \in 0..(Len(files) + 1), c \in 1..Len(KvTexts)}
    \cup {MetadataOf(files, mw[1], mw[2], c) :
            mw \in {<<1, 1>>, <<2, 1>>, <<2, 2>>},
            c \in {1, Len(KvTexts) - 1}}
    \cup MalformedMetadata

NoFile == [exists |-> FALSE, writes |-> << >>]
OtherFile == [exists |-> TRUE, writes |-> <<Written(0, 4, "other", NoData)>>]

Init ==
    /\ arg = << >>
    /\ ret = NoRet
    /\ wpc = "idle"
    /\ input_files = << >>
    /\ section_metadata_str = << >>
    /\ metadata_keyvaluepairs = << >>
    /\ section_offsets = << >>
    /\ section_types = << >>
    /\ section_names = << >>
    /\ pos = 0
    /\ out \in {NoFile, OtherFile}
    /\ handles = {}
    /\ opens = << >>
    /\ wres = NoRet
    /\ pres = NoRet

Next ==
    \/ /\ wpc = "idle"
       /\ \E files \in SeqsUpTo(InputPaths, MaxFiles) :
              \E metadata_str \in MetadataFor(files) :
                  litertlm_write_begin(files, metadata_str)
    \/ litertlm_write_section
    \/ litertlm_write_header
    \/ peek

Spec == Init /\ [][Next]_vars

(* --------------------- the classifier, on its own --------------------- *)

NamePieces ==
    {s_dot, s_slash, s_x, s_tflite, s_dot \o s_tflite, s_dot \o s_pb,
     s_dot \o s_proto, s_dot \o s_pbtext, s_dot \o s_prototext,
     s_dot \o s_spiece, s_tokenizer_json, s_dot \o s_json}

FileNames == {Cat(ps) : ps \in SeqsUpTo(NamePieces, MaxNameParts)}

\* The writer's variables, at rest while a pure function is checked.
WriterAtRest ==
    /\ wpc = "idle"
    /\ input_files = << >>
    /\ section_metadata_str = << >>
    /\ metadata_keyvaluepairs = << >>
    /\ section_offsets = << >>
    /\ section_types = << >>
    /\ section_names = << >>
    /\ pos = 0
    /\ out = NoFile
    /\ handles = {}
    /\ opens = << >>
    /\ wres = NoRet
    /\ pres = NoRet

writer_vars ==
    <<wpc, input_files, section_metadata_str, metadata_keyvaluepairs,
      section_offsets, section_types, section_names, pos, out, handles,
      opens, wres, pres>>

InitClassify ==
    /\ arg \in FileNames
    /\ ret = NoRet
    /\ WriterAtRest

Classify ==
    /\ ret = NoRet
    /\ ret' = get_section_type_and_name(arg)
    /\ UNCHANGED <<arg, writer_vars>>

NextClassify == Classify

SpecClassify == InitClassify /\ [][NextClassify]_vars

(* ------------------ parse_metadata_string, on its own ----------------- *)

MetaPieces ==
    {<<"a">>, <<":">>, <<";">>, <<",">>, <<"=">>, <<"k", "=", "1">>,
     <<"j", "=">>}

MetaStrings == {Cat(ps) : ps \in SeqsUpTo(MetaPieces, MaxMetaParts)}

InitParse ==
    /\ arg \in MetaStrings
    /\ ret = NoRet
    /\ WriterAtRest

Parse ==
    /\ ret = NoRet
    /\ ret' = parse_metadata_string(arg)
    /\ UNCHANGED <<arg, writer_vars>>

NextParse == Parse

SpecParse == InitParse /\ [][NextParse]_vars

(* ------------- the typing and the storing of one value text ----------- *)

ValuePieces ==
    {s_true, s_True, <<"F", "A", "L", "S", "E">>, <<"1">>, <<"0">>, <<"-">>,
     <<".">>, <<"e">>, <<"_">>, <<" ">>, <<"x">>, s_inf, s_nan,
     INT64_MAX_DIGITS, INT64_MIN_DIGITS}

ValueTexts == {Cat(ps) : ps \in SeqsUpTo(ValuePieces, MaxValueParts)}

InitValue ==
    /\ arg \in ValueTexts
    /\ ret = NoRet
    /\ WriterAtRest

\* Line 127 and then line 239: the text is typed, and the typed value is
\* stored under the key "k".
StoreValue ==
    /\ ret = NoRet
    /\ ret' = [parsed |-> _parse_metadata_value(arg),
               stored |-> create_key_value_pair(<<"k">>,
                                                _parse_metadata_value(arg))]
    /\ UNCHANGED <<arg, writer_vars>>

NextValue == StoreValue

SpecValue == InitValue /\ [][NextValue]_vars

(* ------------------- the claims about a run of the tools -------------- *)

WriterDone == wpc \in {"returned", "raised"}
Returned == [ok |-> TRUE]
\* The call has parsed its metadata string (line 164), into the entries of
\* metadata_keyvaluepairs.
MetadataParsed ==
    /\ wpc # "idle"
    /\ input_files # << >>
    /\ wres \notin {Raised("ValueError", "Invalid section metadata format"),
                    Raised("ValueError", "Invalid key-value pair"),
                    Raised("ValueError", "Duplicate key in section metadata")}
Classified(i) == get_section_type_and_name(input_files[i])
Matched == IF Len(metadata_keyvaluepairs) < Len(input_files)
           THEN Len(metadata_keyvaluepairs) ELSE Len(input_files)

\* Entry i of the metadata names another section than file i is given.
Mismatch(i) ==
    /\ MetadataParsed
    /\ i \in 1..Matched
    /\ metadata_keyvaluepairs[i].name # Classified(i)[2]
NamesMatch == MetadataParsed /\ \A i \in 1..Matched : ~Mismatch(i)

\* Every input file exists and, where it is text, parses as text.
InputsReadable ==
    \A i \in 1..Len(input_files) :
        /\ OnDisk(input_files[i]).exists
        /\ get_file_extension(input_files[i])
               \in {s_dot \o s_pbtext, s_dot \o s_prototext}
           => OnDisk(input_files[i]).text

\* Moreover every binary LlmMetadata input is a valid LlmMetadata.
InputsValid ==
    /\ InputsReadable
    /\ \A i \in 1..Len(input_files) :
           get_file_extension(input_files[i]) \in {s_dot \o s_pb, s_dot \o s_proto}
           => OnDisk(input_files[i]).wire

\* The integers of the entries below index n (counted from 1) fit an Int64.
IntegersInRangeBelow(n) ==
    \A i \in 1..Matched :
        i < n =>
            \A j \in 1..Len(metadata_keyvaluepairs[i].kv) :
                metadata_keyvaluepairs[i].kv[j][2].t = "int"
                => InInt64Range(metadata_keyvaluepairs[i].kv[j][2])
IntegersInRange == IntegersInRangeBelow(Matched + 1)

\* No float of a used entry has more than four decimal places.
FloatsOfFourDecimals ==
    \A i \in 1..Matched :
        \A j \in 1..Len(metadata_keyvaluepairs[i].kv) :
            LET v == metadata_keyvaluepairs[i].kv[j][2]
            IN  v.t = "float" /\ v.kind = "dec" => v.exp >= 0 - 4

\* Where the header of the sections written ends once it is encoded.
EncodedHeaderEnd ==
    HEADER_BEGIN_BYTE_OFFSET
        + HeaderLen(build_header(section_offsets, section_types,
                                 section_names, metadata_keyvaluepairs).hdr)

\* The output holds a header, and the header it holds.
HasHeader ==
    /\ out.exists
    /\ Covered(out, HEADER_BEGIN_BYTE_OFFSET)
    /\ ReadAt(out, HEADER_BEGIN_BYTE_OFFSET).what = "header"
WrittenHeader == ReadAt(out, HEADER_BEGIN_BYTE_OFFSET).data
HeaderEndWritten ==
    \E i \in 1..Len(out.writes) : out.writes[i].what = "header_end_offset"

\* The pairs the metadata string gives section i: those of entry i, if any.
ExpectedPairs(i) ==
    IF i <= Len(metadata_keyvaluepairs) THEN metadata_keyvaluepairs[i].kv ELSE << >>

\* The tag under which the writer stores a value of each type.
TypeTag(v) ==
    CASE v.t = "bool" -> "Bool"
      [] v.t = "int" -> "Int64"
      [] v.t = "float" -> "Double"
      [] OTHER -> "StringValue"

(* C1 *)
TypeName(v) ==
    CASE v.t = "bool" -> "Bool"
      [] v.t = "int" -> "Int64"
      [] v.t = "float" -> "Double"
      [] OTHER -> "String"

\* The value a printed item is read back as.
ReadBack(item) ==
    CASE item.type = "Bool" -> [t |-> "bool", b |-> (item.text = s_True)]
      [] item.type = "Int64" -> IntOf(item.text)
      [] item.type = "Double" -> FloatOf(item.text)
      [] OTHER -> [t |-> "str", s |-> item.text]

Recovered(items, kv) ==
    /\ Len(items) = Len(kv)
    /\ \A j \in 1..Len(kv) :
           /\ items[j].key = kv[j][1]
           /\ items[j].type = TypeName(kv[j][2])
           /\ ReadBack(items[j]) = kv[j][2]

RoundTrip ==
    /\ wres = Returned
    /\ pres.ok
    /\ pres.version = <<1, 3, 0>>
    /\ Len(pres.sections) = Len(input_files)
    /\ \A i \in 1..Len(input_files) :
           /\ pres.sections[i].data_type = Classified(i)[1]
           /\ Recovered(pres.sections[i].items, ExpectedPairs(i))

\* C1 as stated: for every non-empty list of input files and every well-formed
\* metadata string whose names match the files' sections, the write succeeds
\* and the file read back gives the same section types, the same pairs with
\* their values and types in order, and version 1.3.0.
C1_RoundTripAsStated ==
    (/\ WriterDone /\ pres # NoRet
     /\ input_files # << >>
     /\ InputsValid
     /\ NamesMatch)
    => RoundTrip

\* C1 amended: the same, for metadata whose integers fit an Int64, whose floats
\* have at most four decimal places, and whose encoded header ends at or
\* before BLOCK_SIZE.
C1_RoundTrip ==
    (/\ WriterDone /\ pres # NoRet
     /\ input_files # << >>
     /\ InputsValid
     /\ NamesMatch
     /\ IntegersInRange
     /\ FloatsOfFourDecimals
     /\ EncodedHeaderEnd <= BLOCK_SIZE)
    => RoundTrip

\* Two sections with pairs of every type have been written and read back.
C1_Witness ==
    /\ wres = Returned
    /\ pres # NoRet /\ pres.ok
    /\ Len(pres.sections) = 2
    /\ {pres.sections[1].items[j].type :
            j \in 1..Len(pres.sections[1].items)} = {"Bool", "String", "Int64"}
    /\ \E j \in 1..Len(pres.sections[2].items) :
           pres.sections[2].items[j].type = "Double"

(* C2 *)
\* C2: every section's recorded begin offset is a multiple of BLOCK_SIZE, and
\* the first section begins at BLOCK_SIZE or later, whatever the number and
\* the sizes of the input files.
C2_BlockAlignment ==
    /\ \A i \in 1..Len(section_offsets) :
           /\ section_offsets[i][1] % BLOCK_SIZE = 0
           /\ section_offsets[i][1] >= BLOCK_SIZE
    /\ HasHeader =>
           /\ Len(WrittenHeader.sections) = Len(input_files)
           /\ \A i \in 1..Len(WrittenHeader.sections) :
                  WrittenHeader.sections[i].begin_offset % BLOCK_SIZE = 0
           /\ WrittenHeader.sections[1].begin_offset >= BLOCK_SIZE

\* A section follows one whose payload ends inside a block.
C2_Witness ==
    /\ wres = Returned
    /\ HasHeader
    /\ Len(WrittenHeader.sections) = 2
    /\ WrittenHeader.sections[1].end_offset % BLOCK_SIZE # 0
    /\ WrittenHeader.sections[2].begin_offset
           > WrittenHeader.sections[1].end_offset

(* C3 *)
\* C3: for two sections i < j of a written file, the recorded end offset of
\* section i is at most the recorded begin offset of section j.
C3_NoOverlap ==
    /\ \A i, j \in 1..Len(section_offsets) :
           i < j => section_offsets[i][2] <= section_offsets[j][1]
    /\ HasHeader =>
           \A i, j \in 1..Len(WrittenHeader.sections) :
               i < j => WrittenHeader.sections[i].end_offset
                            <= WrittenHeader.sections[j].begin_offset

\* A compressed tokenizer, shorter than its input, is followed by a section.
C3_Witness ==
    /\ wres = Returned
    /\ HasHeader
    /\ Len(WrittenHeader.sections) = 2
    /\ WrittenHeader.sections[1].data_type = "HF_Tokenizer_Zlib"
    /\ WrittenHeader.sections[1].begin_offset
           < WrittenHeader.sections[1].end_offset
    /\ WrittenHeader.sections[1].end_offset
           < WrittenHeader.sections[1].begin_offset
                 + OnDisk(input_files[1]).len

(* C4 *)
SizeLimitError == Raised("ValueError", "Header size exceeds 16KB limit.")

\* The run has written every section and encoded its header.
HeaderEncoded ==
    /\ WriterDone
    /\ input_files # << >>
    /\ Len(section_offsets) = Len(input_files)
    /\ build_header(section_offsets, section_types, section_names,
                    metadata_keyvaluepairs).ok

\* C4: the write fails with the size-limit ValueError exactly when the
\* encoded header ends beyond BLOCK_SIZE; when the write returns, the value
\* stored at offset 24 is the header's end, is at most BLOCK_SIZE, and the
\* header does not reach into the first section.
C4_HeaderSizeLimit ==
    /\ wres = SizeLimitError
           <=> (HeaderEncoded /\ EncodedHeaderEnd > BLOCK_SIZE)
    /\ wres = Returned =>
           LET at24 == ReadAt(out, HEADER_END_LOCATION_BYTE_OFFSET)
           IN  /\ HasHeader
               /\ at24.what = "header_end_offset"
               /\ at24.data.v
                      = HEADER_BEGIN_BYTE_OFFSET
                            + ReadAt(out, HEADER_BEGIN_BYTE_OFFSET).len
               /\ at24.data.v <= BLOCK_SIZE
               /\ at24.data.v <= WrittenHeader.sections[1].begin_offset

\* A header of two sections too long for the first block has been refused.
C4_Witness ==
    /\ wres = SizeLimitError
    /\ Len(section_offsets) = 2
    /\ EncodedHeaderEnd > BLOCK_SIZE
    /\ ~HeaderEndWritten

(* C5 *)
\* C5: a call with an empty list of input files raises the ValueError "At
\* least one input file must be provided." and leaves the output path as it
\* was: not created, not opened for writing, not modified.
C5_EmptyInputList ==
    (wpc # "idle" /\ input_files = << >>) =>
        /\ wpc = "raised"
        /\ wres = Raised("ValueError",
                         "At least one input file must be provided.")
        /\ out \in {NoFile, OtherFile}
        /\ handles = {}
        /\ \A i \in 1..Len(opens) : opens[i].mode # "wb"

\* The call with no input files has ended, next to a file of another kind.
C5_Witness ==
    /\ wpc = "raised"
    /\ input_files = << >>
    /\ out = OtherFile
    /\ wres.why = "At least one input file must be provided."

(* C6 *)
NameMismatchError ==
    Raised("ValueError", "Metadata section name does not match")
FirstMismatch ==
    CHOOSE i \in 1..Matched :
        Mismatch(i) /\ \A j \in 1..(i - 1) : ~Mismatch(j)

\* C6 as stated: if the name of some metadata entry i differs from the
\* section name of input file i, the write fails with the name-mismatch
\* ValueError and never writes the header-end field.
C6_NameCheckAsStated ==
    (/\ WriterDone
     /\ InputsReadable
     /\ \E i \in 1..Len(input_files) : Mismatch(i))
    => (wres = NameMismatchError /\ ~HeaderEndWritten)

\* C6 amended: with such an entry the write fails and never writes the
\* header-end field; it fails with the name-mismatch ValueError when every
\* input file can be read and the integers of the entries before the first
\* mismatch fit an Int64.
C6_NameCheck ==
    (/\ WriterDone
     /\ \E i \in 1..Len(input_files) : Mismatch(i))
    => /\ wres # Returned
       /\ ~wres.ok
       /\ ~HeaderEndWritten
       /\ (InputsReadable /\ IntegersInRangeBelow(FirstMismatch))
              => wres = NameMismatchError

\* The second of two entries names another section than the second file's.
C6_Witness ==
    /\ wres = NameMismatchError
    /\ Len(input_files) = 2
    /\ ~Mismatch(1)
    /\ Mismatch(2)
    /\ HasHeader = FALSE

(* C7 *)
\* The items stored for a section are the pairs kv, typed as parsed.
Stored(items, kv) ==
    /\ Len(items) = Len(kv)
    /\ \A j \in 1..Len(kv) :
           /\ items[j].key = kv[j][1]
           /\ items[j].value = kv[j][2]
           /\ items[j].value_type = TypeTag(kv[j][2])

SectionsCarryEntries ==
    /\ wres = Returned
    /\ HasHeader
    /\ Len(WrittenHeader.sections) = Len(input_files)
    /\ \A i \in 1..Len(input_files) :
           Stored(WrittenHeader.sections[i].items, ExpectedPairs(i))

\* C7 as stated: with fewer metadata entries than input files and matching
\* names the write succeeds, the first sections carry the pairs of their
\* entries and the sections past the last entry carry none.
C7_FewerEntriesAsStated ==
    (/\ WriterDone
     /\ InputsReadable
     /\ NamesMatch
     /\ Len(metadata_keyvaluepairs) < Len(input_files))
    => SectionsCarryEntries

\* C7 amended: the same, when the integers of the entries fit an Int64 and
\* the encoded header ends at or before BLOCK_SIZE.
C7_FewerEntries ==
    (/\ WriterDone
     /\ InputsReadable
     /\ NamesMatch
     /\ Len(metadata_keyvaluepairs) < Len(input_files)
     /\ IntegersInRange
     /\ EncodedHeaderEnd <= BLOCK_SIZE)
    => SectionsCarryEntries

\* One entry for two files: the first section has pairs, the second none.
C7_Witness ==
    /\ wres = Returned
    /\ Len(input_files) = 2
    /\ MetadataParsed /\ Len(metadata_keyvaluepairs) = 1
    /\ HasHeader
    /\ WrittenHeader.sections[1].items # << >>
    /\ WrittenHeader.sections[2].items = << >>

(* C8 *)
HasChar(s, c) == \E i \in 1..Len(s) : s[i] = c
FirstAt(s, c) ==
    CHOOSE i \in 1..Len(s) : s[i] = c /\ \A j \in 1..(i - 1) : s[j] # c
Before(s, c) == SubSeq(s, 1, FirstAt(s, c) - 1)
After(s, c) == SubSeq(s, FirstAt(s, c) + 1, Len(s))

\* The non-empty segments of a metadata string, and the items of a segment's
\* pair list (none when the list is empty).
Segments(s) == SelectSeq(Split(s, ";"), LAMBDA g : g # << >>)
Items(seg) ==
    IF After(seg, ":") = << >> THEN << >> ELSE Split(After(seg, ":"), ",")

SectionFormatError(s) ==
    \E i \in 1..Len(Segments(s)) : ~HasChar(Segments(s)[i], ":")
KeyValueFormatError(s) ==
    \E i \in 1..Len(Segments(s)) :
        /\ HasChar(Segments(s)[i], ":")
        /\ \E j \in 1..Len(Items(Segments(s)[i])) :
               ~HasChar(Items(Segments(s)[i])[j], "=")
DuplicateKeyError(s) ==
    \E i \in 1..Len(Segments(s)) :
        /\ HasChar(Segments(s)[i], ":")
        /\ LET its == Items(Segments(s)[i])
           IN  \E j, k \in 1..Len(its) :
                   /\ j < k
                   /\ HasChar(its[j], "=") /\ HasChar(its[k], "=")
                   /\ Before(its[j], "=") = Before(its[k], "=")

ExpectedEntries(s) ==
    [i \in 1..Len(Segments(s)) |->
        LET seg == Segments(s)[i]
        IN  [name |-> Before(seg, ":"),
             kv |-> [j \in 1..Len(Items(seg)) |->
                        <<Before(Items(seg)[j], "="),
                          _parse_metadata_value(After(Items(seg)[j], "="))>>]]]

\* C8: parse_metadata_string raises a ValueError if and only if a non-empty
\* segment has no ":", or an item of a non-empty pair list has no "=", or a
\* key occurs twice in one section; otherwise it returns one entry per
\* non-empty segment in input order, and none for the empty string.
C8_ParseErrorsIff ==
    ret # NoRet =>
        IF \/ SectionFormatError(arg)
           \/ KeyValueFormatError(arg)
           \/ DuplicateKeyError(arg)
        THEN ~ret.ok /\ ret.error = "ValueError"
        ELSE /\ ret.ok
             /\ ret.entries = ExpectedEntries(arg)
             /\ arg = << >> => ret.entries = << >>

\* A string whose only fault is a key that occurs twice has been refused.
C8_Witness ==
    /\ ret # NoRet
    /\ DuplicateKeyError(arg)
    /\ ~SectionFormatError(arg) /\ ~KeyValueFormatError(arg)
    /\ ret = Raised("ValueError", "Duplicate key in section metadata")

(* C9 *)
\* Value texts and the Python type each is given.
TypedTexts ==
    {<<s_True, "bool">>, <<<<"F", "A", "L", "S", "E">>, "bool">>,
     <<<<"1">>, "int">>, <<<<"-", "1">>, "int">>, <<<<" ", "1", " ">>, "int">>,
     <<<<"1", "_", "0">>, "int">>, <<<<"0", "1">>, "int">>,
     <<<<"-", "0">>, "int">>,
     <<<<"1", ".">>, "float">>, <<<<".", "1">>, "float">>,
     <<<<"1", "e", "1">>, "float">>, <<<<"-">> \o s_inf, "float">>,
     <<s_inf \o <<" ">>, "float">>, <<s_nan, "float">>,
     <<<<"1", "e">>, "str">>, <<<<"_", "1">>, "str">>,
     <<<<"1", " ", "0">>, "str">>, <<<<"x">>, "str">>, <<<< >>, "str">>,
     <<<<"-">>, "str">>, <<s_true \o <<" ">>, "str">>,
     <<<<"e", "1">>, "str">>, <<s_inf \o s_nan, "str">>,
     <<<<".">>, "str">>, <<<<"1", "_", ".">>, "str">>}

HasSuffix(name, e) ==
    /\ EndsWith(name, s_dot \o e)
    /\ LET stem == SubSeq(name, 1, Len(name) - Len(e) - 1)
           comp == SubSeq(stem, RFind(stem, "/") + 1, Len(stem))
       IN  \E i \in 1..Len(comp) : comp[i] # "."

ExpectedSection(name) ==
    IF HasSuffix(name, s_tflite)
    THEN <<"TFLiteModel", <<"t", "f", "l", "i", "t", "e">> >>
    ELSE IF \E e \in {s_pb, s_proto, s_pbtext, s_prototext} : HasSuffix(name, e)
    THEN <<"LlmMetadataProto",
           <<"l", "l", "m", "_", "m", "e", "t", "a", "d", "a", "t", "a">> >>
    ELSE IF HasSuffix(name, s_spiece)
    THEN <<"SP_Tokenizer", <<"t", "o", "k", "e", "n", "i", "z", "e", "r">> >>
    ELSE IF EndsWith(name, s_tokenizer_json)
    THEN <<"HF_Tokenizer_Zlib",
           <<"h", "f", "_", "t", "o", "k", "e", "n", "i", "z", "e", "r", "_",
             "z", "l", "i", "b">> >>
    ELSE <<"GenericBinaryData",
           <<"b", "i", "n", "a", "r", "y", "_", "d", "a", "t", "a">> >>

\* C10: the classifier is total and gives every file name exactly the pair of
\* the first rule that matches: suffix .tflite, else suffix .pb / .proto /
\* .pbtext / .prototext, else suffix .spiece, else a name ending with
\* tokenizer.json, else generic binary data.
C10_ClassifierRules ==
    ret # NoRet =>
        /\ ret = ExpectedSection(arg)
        /\ ret[1] \in AnySectionDataType

\* A name that ends with ".tflite" and has no suffix has been classified.
C10_Witness ==
    /\ ret # NoRet
    /\ EndsWith(arg, s_dot \o s_tflite)
    /\ ~HasSuffix(arg, s_tflite)
    /\ ret[1] = "GenericBinaryData"

(* C11 *)
\* zlib.decompress of the bytes of [begin, end): the contents that were
\* compressed, when the bytes are one whole compressed stream, else an error.
zlib_decompress(file, begin, end) ==
    IF /\ Covered(file, begin)
       /\ ReadAt(file, begin).what = "compressed"
       /\ ReadAt(file, begin).off = begin
       /\ ReadAt(file, begin).len = end - begin
    THEN [ok |-> TRUE, of |-> ReadAt(file, begin).data.of,
          len |-> OnDisk(ReadAt(file, begin).data.of).len]
    ELSE [ok |-> FALSE]

\* C11: in a written file the region of every section classified as
\* HF_Tokenizer_Zlib is the 8-byte length of the input file's contents
\* followed by the compressed contents, and decompressing what follows the
\* prefix gives the contents of the input file, of the length in the prefix.
C11_ZlibSection ==
    wres = Returned =>
        \A i \in 1..Len(input_files) :
            WrittenHeader.sections[i].data_type = "HF_Tokenizer_Zlib" =>
                LET begin == WrittenHeader.sections[i].begin_offset
                    end == WrittenHeader.sections[i].end_offset
                    prefix == ReadAt(out, begin)
                    plain == zlib_decompress(out, begin + 8, end)
                IN  /\ Covered(out, begin)
                    /\ prefix.what = "uncompressed_size"
                    /\ prefix.off = begin /\ prefix.len = 8
                    /\ prefix.data.v = OnDisk(input_files[i]).len
                    /\ plain.ok
                    /\ plain.of = input_files[i]
                    /\ plain.len = prefix.data.v

\* A tokenizer.json has been written as the second of two sections.
C11_Witness ==
    /\ wres = Returned
    /\ Len(input_files) = 2
    /\ WrittenHeader.sections[2].data_type = "HF_Tokenizer_Zlib"
    /\ WrittenHeader.sections[2].end_offset
           = WrittenHeader.sections[2].begin_offset + 8
                 + OnDisk(input_files[2]).zlen
    /\ OnDisk(input_files[2]).zlen # OnDisk(input_files[2]).len

(* C12 *)
\* The first 8 bytes of the file are the magic: they were written as the
\* magic and nothing was written over them since.
FirstBytesAreMagic(file) ==
    \E i \in 1..Len(file.writes) :
        /\ file.writes[i].what = "magic"
        /\ file.writes[i].off = 0 /\ file.writes[i].len = 8
        /\ \A j \in (i + 1)..Len(file.writes) :
               file.writes[j].off >= 8 \/ file.writes[j].len = 0

\* C12: on a file whose first 8 bytes are not the magic, a file shorter than
\* 8 bytes included, the reader raises the invalid-magic ValueError having
\* read nothing but those bytes (no version, no header-end field, no header)
\* and having written nothing to the output stream.
C12_InvalidMagic ==
    (pres # NoRet /\ out.exists /\ ~FirstBytesAreMagic(out)) =>
        /\ ~pres.ok
        /\ pres.error = "ValueError"
        /\ pres.why = "Invalid magic number"
        /\ pres.reads = <<ReadOf(0, 8)>>
        /\ pres.stream = << >>
        /\ DOMAIN pres \cap {"version", "system", "sections"} = {}

\* The reader has refused a file of four bytes.
C12_Witness ==
    /\ pres # NoRet
    /\ out = OtherFile
    /\ TellAfter(0, out.writes) < 8
    /\ pres.why = "Invalid magic number"

(* C13 *)
\* C13: every handle a call opens is closed when the call returns or raises:
\* no handle is open once litertlm_write has ended or peek_litertlm_file has
\* ended, and between two steps of a write only the output is open.
C13_HandlesClosed ==
    /\ (wpc \in {"idle", "returned", "raised"}) => handles = {}
    /\ (wpc \in {"sections", "header"}) => handles = {s_output}

\* text_format.Parse has raised with the output and an input file open.
C13_Witness ==
    /\ wpc = "raised"
    /\ wres = Raised("ParseError", "text_format.Parse")
    /\ opens[Len(opens)].mode = "rb"
    /\ handles = {}

(* C14 *)
\* The number of bytes the writer stores for an input file: the size prefix
\* and the compressed contents of a tokenizer.json, the binary form of a
\* text LlmMetadata, the contents of any other file.
PayloadLength(filename) ==
    IF EndsWith(filename, s_tokenizer_json)
    THEN 8 + OnDisk(filename).zlen
    ELSE IF \/ EndsWith(filename, s_dot \o s_pbtext)
            \/ EndsWith(filename, s_dot \o s_prototext)
    THEN OnDisk(filename).ser
    ELSE OnDisk(filename).len

\* C14 as stated: in a written file the begin offset of every section and
\* the end offset of every section but the last are multiples of BLOCK_SIZE.
C14_EndsAlignedAsStated ==
    wres = Returned =>
        /\ \A i \in 1..Len(WrittenHeader.sections) :
               WrittenHeader.sections[i].begin_offset % BLOCK_SIZE = 0
        /\ \A i \in 1..(Len(WrittenHeader.sections) - 1) :
               WrittenHeader.sections[i].end_offset % BLOCK_SIZE = 0

\* C14 amended: the begin offset of every section is a multiple of
\* BLOCK_SIZE; the end offset of a section is where its payload ends, before
\* the padding, and the next section begins at the first multiple of
\* BLOCK_SIZE at or after it.
C14_EndsBeforePadding ==
    wres = Returned =>
        /\ \A i \in 1..Len(WrittenHeader.sections) :
               /\ WrittenHeader.sections[i].begin_offset % BLOCK_SIZE = 0
               /\ WrittenHeader.sections[i].end_offset
                      = WrittenHeader.sections[i].begin_offset
                            + PayloadLength(input_files[i])
        /\ \A i \in 1..(Len(WrittenHeader.sections) - 1) :
               /\ WrittenHeader.sections[i + 1].begin_offset
                      >= WrittenHeader.sections[i].end_offset
               /\ WrittenHeader.sections[i + 1].begin_offset
                      - WrittenHeader.sections[i].end_offset < BLOCK_SIZE

\* A section that is not the last ends inside a block.
C14_Witness ==
    /\ wres = Returned
    /\ Len(WrittenHeader.sections) = 2
    /\ WrittenHeader.sections[1].end_offset % BLOCK_SIZE = 7
    /\ WrittenHeader.sections[2].begin_offset
           = WrittenHeader.sections[1].end_offset + (BLOCK_SIZE - 7)

(* C15 *)
\* C15 as stated: every section of a written header has end_offset > begin_offset,
\* for input files of every type and size, an empty one included.
C15_EndAfterBegin ==
    HasHeader =>
        \A i \in 1..Len(WrittenHeader.sections) :
            WrittenHeader.sections[i].end_offset
                > WrittenHeader.sections[i].begin_offset

\* C15 amended: every section of a written header has end_offset >=
\* begin_offset, the two apart by the length of the stored payload: equal
\* when the payload is empty (an empty input file that is not a
\* tokenizer.json), and at least 8 apart for a tokenizer.json.
C15_EndNotBeforeBegin ==
    HasHeader =>
        \A i \in 1..Len(WrittenHeader.sections) :
            LET sec == WrittenHeader.sections[i]
            IN  /\ sec.end_offset >= sec.begin_offset
                /\ sec.end_offset - sec.begin_offset
                       = PayloadLength(input_files[i])
                /\ sec.end_offset = sec.begin_offset
                       <=> (/\ sec.data_type # "HF_Tokenizer_Zlib"
                            /\ PayloadLength(input_files[i]) = 0)
                /\ sec.data_type = "HF_Tokenizer_Zlib"
                       => sec.end_offset >= sec.begin_offset + 8

\* An empty file has been written as a section of no bytes, and the next
\* section begins where it does.
C15_Witness ==
    /\ wres = Returned
    /\ Len(WrittenHeader.sections) = 2
    /\ OnDisk(input_files[1]).len = 0
    /\ WrittenHeader.sections[1].end_offset
           = WrittenHeader.sections[1].begin_offset
    /\ WrittenHeader.sections[2].begin_offset
           = WrittenHeader.sections[1].begin_offset
    /\ WrittenHeader.sections[2].end_offset
           > WrittenHeader.sections[2].begin_offset

(* C16 *)
\* C16: in a file written and read back, a pair whose value in the metadata
\* string is an integer is reported with the type Int32, and a pair whose
\* value is fractional is reported with the type Float.
C16_NumericTags ==
    (/\ wres = Returned
     /\ pres # NoRet /\ pres.ok)
    => \A i \in 1..Len(pres.sections) :
           \A j \in 1..Len(pres.sections[i].items) :
               /\ j <= Len(ExpectedPairs(i))
               /\ ExpectedPairs(i)[j][2].t = "int"
                      => pres.sections[i].items[j].type = "Int32"
               /\ ExpectedPairs(i)[j][2].t = "float"
                      => pres.sections[i].items[j].type = "Float"

(* C17 *)
\* The output has been opened by the call: line 166 has been passed.
OutputOpened ==
    /\ wpc # "idle"
    /\ \E k \in 1..Len(opens) :
           opens[k] = [path |-> s_output, mode |-> "wb"]

\* The writes that precede the header's: the magic, the version, the padding
\* and the sections.
BodyWrites ==
    SelectSeq(out.writes,
              LAMBDA w : w.what \notin {"header", "header_end_offset"})
TailWrites ==
    SelectSeq(out.writes,
              LAMBDA w : w.what \in {"header", "header_end_offset"})

\* C17: the output is written in the order magic, version, padding up to
\* 16384, then for each input file in the caller's order its payload and its
\* padding, then the header at 32, then the header's end at 24; the write at
\* 24 is the last one and happens only in a call that returns, and the file
\* left by a call that raised reads zero at each of the offsets 24..31.
C17_WriteOrder ==
    OutputOpened =>
        /\ out.writes = BodyWrites \o TailWrites
        \* the preamble
        /\ Len(BodyWrites) >= 5
        /\ BodyWrites[1].what = "magic" /\ BodyWrites[1].off = 0
        /\ \A k \in 2..4 : BodyWrites[k].what = "version"
        /\ BodyWrites[5].what = "padding"
        /\ BodyWrites[5].off + BodyWrites[5].len = BLOCK_SIZE
        \* each write before the header's starts where the one before ended
        /\ \A k \in 1..(Len(BodyWrites) - 1) :
               BodyWrites[k + 1].off = BodyWrites[k].off + BodyWrites[k].len
        \* the sections, in the caller's order
        /\ \A i \in 1..Len(section_offsets) :
               /\ i > 1 => section_offsets[i][1] >= section_offsets[i - 1][2]
               /\ \A k \in 6..Len(BodyWrites) :
                      LET w == BodyWrites[k]
                          next_begin ==
                              IF i < Len(section_offsets)
                              THEN section_offsets[i + 1][1] ELSE pos
                      IN  /\ (/\ section_offsets[i][1] <= w.off
                              /\ w.off < section_offsets[i][2])
                             => /\ w.what \in {"content", "proto",
                                               "uncompressed_size",
                                               "compressed"}
                                /\ w.what # "uncompressed_size"
                                       => w.data.of = input_files[i]
                          /\ (/\ section_offsets[i][2] <= w.off
                              /\ w.off < next_begin
                              /\ w.off + w.len > section_offsets[i][2])
                             => w.what = "padding"
        \* the header and then its end, after every section
        /\ TailWrites # << >>
               => /\ Len(section_offsets) = Len(input_files)
                  /\ TailWrites[1].what = "header"
                  /\ TailWrites[1].off = HEADER_BEGIN_BYTE_OFFSET
                  /\ Len(TailWrites) <= 2
        /\ Len(TailWrites) = 2
               => /\ TailWrites[2].what = "header_end_offset"
                  /\ TailWrites[2].off = HEADER_END_LOCATION_BYTE_OFFSET
                  /\ TailWrites[2].len = 8
                  /\ wres = Returned
        /\ wres = Returned => Len(TailWrites) = 2
        /\ wpc = "raised"
               => \A o \in HEADER_END_LOCATION_BYTE_OFFSET
                               ..(HEADER_BEGIN_BYTE_OFFSET - 1) :
                      /\ Covered(out, o)
                      /\ ReadAt(out, o).what = "padding"

\* A call has written two sections and the header and then raised on the
\* header's size, leaving a file without the write at 24.
C17_Witness ==
    /\ wpc = "raised"
    /\ OutputOpened
    /\ Len(section_offsets) = 2
    /\ Len(TailWrites) = 1
    /\ out.writes[Len(out.writes)].what = "header"
    /\ ReadAt(out, HEADER_END_LOCATION_BYTE_OFFSET).what = "padding"

(* C18 *)
\* The metadata string of the call has a segment without ":", an item without
\* "=", or a key that occurs twice in one section.
Malformed ==
    LET segs == Segments(section_metadata_str)
    IN  \E i \in 1..Len(segs) :
            \/ ~HasChar(segs[i], ":")
            \/ LET its == Items(segs[i])
               IN  \/ \E j \in 1..Len(its) : ~HasChar(its[j], "=")
                   \/ \E j, k \in 1..Len(its) :
                          /\ j < k
                          /\ HasChar(its[j], "=") /\ HasChar(its[k], "=")
                          /\ Before(its[j], "=") = Before(its[k], "=")

\* C18: a call with a malformed metadata string raises before the output is
\* opened: a path without a file stays without one, a file at the path keeps
\* its contents, and no input file is opened.
C18_MalformedBeforeOpen ==
    (wpc # "idle" /\ Malformed) =>
        /\ wpc = "raised"
        /\ ~wres.ok /\ wres.error = "ValueError"
        /\ out \in {NoFile, OtherFile}
        /\ \A k \in 1..Len(opens) :
               /\ opens[k].mode # "wb"
               /\ opens[k].path \notin InputPaths
        /\ section_offsets = << >>

\* A call with input files and a key given twice has raised, and the file
\* that was at the output path is as it was.
C18_Witness ==
    /\ wpc = "raised"
    /\ input_files # << >>
    /\ DuplicateKeyError(section_metadata_str)
    /\ wres = Raised("ValueError", "Duplicate key in section metadata")
    /\ out = OtherFile
    /\ opens = << >>

(* C19 *)
\* C19: the size of the header is tested only after the header has been
\* written at 32: when the encoded header ends beyond BLOCK_SIZE, the file the
\* failed call leaves reads header data from BLOCK_SIZE up to the header's
\* end, so the first section's region no longer begins with its payload, and
\* the header's end has not been written at 24.
C19_HeaderWrittenBeforeCheck ==
    (HeaderEncoded /\ EncodedHeaderEnd > BLOCK_SIZE) =>
        /\ wres = SizeLimitError
        /\ out.exists
        /\ out.writes[Len(out.writes)]
               = Written(HEADER_BEGIN_BYTE_OFFSET,
                         EncodedHeaderEnd - HEADER_BEGIN_BYTE_OFFSET,
                         "header",
                         build_header(section_offsets, section_types,
                                      section_names,
                                      metadata_keyvaluepairs).hdr)
        /\ \A o \in {BLOCK_SIZE, section_offsets[1][1],
                     EncodedHeaderEnd - 1} :
               /\ Covered(out, o)
               /\ ReadAt(out, o).what = "header"
        /\ ~HeaderEndWritten

\* A failed call has left a file in which the first section's payload was
\* written at BLOCK_SIZE and a later write of the header covers it.
C19_Witness ==
    /\ wres = SizeLimitError
    /\ section_offsets[1][1] = BLOCK_SIZE
    /\ \E k \in 1..Len(out.writes) :
           /\ out.writes[k].off = BLOCK_SIZE
           /\ out.writes[k].what \in {"content", "proto", "uncompressed_size"}
           /\ out.writes[k].len > 0
    /\ ReadAt(out, BLOCK_SIZE).what = "header"
    /\ EncodedHeaderEnd > BLOCK_SIZE

(* C20 *)
\* C20: the metadata entries past the last input file are ignored without
\* error: a call whose other entries name their sections and hold integers in
\* range does not raise for a name or for an integer of an extra entry, the
\* sections of the written header carry the pairs of their own entries only,
\* and the header is the one built from the entries without the extra ones.
C20_ExtraEntriesIgnored ==
    (/\ WriterDone
     /\ MetadataParsed
     /\ InputsReadable
     /\ Len(metadata_keyvaluepairs) > Len(input_files)) =>
        LET kept == SubSeq(metadata_keyvaluepairs, 1, Len(input_files))
            without == build_header(section_offsets, section_types,
                                    section_names, kept)
        IN  /\ Len(section_offsets) = Len(input_files)
            /\ (NamesMatch /\ IntegersInRange)
                   => /\ wres \in {Returned, SizeLimitError}
                      /\ HasHeader
            /\ HasHeader
                   => /\ WrittenHeader = without.hdr
                      /\ Len(WrittenHeader.sections) = Len(input_files)
                      /\ \A i \in 1..Len(input_files) :
                             Stored(WrittenHeader.sections[i].items,
                                    metadata_keyvaluepairs[i].kv)
            /\ ~HasHeader => wres = without

\* A call with one input file and two entries has returned, the second entry
\* naming another section than the file's and holding an integer that fits
\* no Int64.
C20_Witness ==
    /\ wres = Returned
    /\ Len(input_files) = 1
    /\ Len(metadata_keyvaluepairs) = 2
    /\ metadata_keyvaluepairs[2].name # Classified(1)[2]
    /\ \E j \in 1..Len(metadata_keyvaluepairs[2].kv) :
           /\ metadata_keyvaluepairs[2].kv[j][2].t = "int"
           /\ ~InInt64Range(metadata_keyvaluepairs[2].kv[j][2])
    /\ Len(WrittenHeader.sections) = 1

====
